---- MODULE Spec2Model ----
(***************************************************************************)
(* Connection lifecycle manager of web/static/app.js: the primary          *)
(* WebSocket, its reconnect timers, the switch to offline mode, the REST   *)
(* polling loop and the user-initiated writes.                             *)
(*                                                                         *)
(* JavaScript runs one handler at a time, so every action below is one     *)
(* whole handler (or one timer callback, or the part of an async function  *)
(* between two awaits).  A failing WebSocket fires error and then close in *)
(* one task: between the two handlers nothing else runs (wsCloseDue).      *)
(* connect() returns early when window.ws is CONNECTING or OPEN, so the    *)
(* socket it replaces is CLOSED or CLOSING; a replaced CLOSING socket      *)
(* still has its close event to come.  Such sockets are counted, not       *)
(* named, and so are the timers, which only call connect() or poll().      *)
(*                                                                         *)
(* document.body is kept as far as the task grid goes: whether #task-grid  *)
(* exists, and the badge count and the list content of each of its         *)
(* columns.  Its writers are onmessage (full_page_load, task_grid_update)  *)
(* and the poll of the offline mode.                                       *)
(*                                                                         *)
(* The simpler manager of part_000 (no guards, no retry counter, no        *)
(* offline mode) is modelled at the end, over the same variables.          *)
(***************************************************************************)
EXTENDS Integers, Sequences, FiniteSets, TLC

\* let maxReconnectAttempts = 10;
maxReconnectAttempts == 10
\* let reconnectDelay = 1000;
reconnectDelay == 1000
\* const pollInterval = 5000;
pollInterval == 5000

\* Bounds of the model.
MaxTimers == 2
MaxStale == 1
MaxPollLoops == 2
MaxWrites == 1
MaxPatch == 3
MaxTasks == 2
MaxAttempt == 12

VARIABLES
    wsReadyState,        \* readyState of window.ws
    wsCloseDue,          \* window.ws has fired error and fires close next, in the same task
    staleClosePending,   \* replaced sockets (CLOSING) whose close event is still to come
    isConnecting,
    connectionAttempts,
    isOfflineMode,
    fullPageReplacement, \* window.fullPageReplacement
    reconnectTimers,     \* pending setTimeout(() => connect(), jitteredDelay)
    pollInFlight,        \* poll() calls awaiting fetch('/api/tasks')
    pollTimers,          \* pending setTimeout(poll, pollInterval)
    restInFlight,        \* REST write requests awaiting their response, per function
    restCancelButtons,   \* the grid shows cancel buttons rendered by updateTaskGridFromRestData
    handler,             \* <<the handler that ran last, the case it was in>>
    issued,              \* what the last handler put on the wire
    shown,               \* the error/warning notifications the last handler displayed
    failedAttempts,      \* sockets whose lifetime ended since the last open event
    body,                \* document.body: the task grid and its columns
    writes,              \* the grid fields the last handler assigned, as <<column, field>>
    scheduled            \* the timers the last handler set

vars == <<wsReadyState, wsCloseDue, staleClosePending, isConnecting,
          connectionAttempts, isOfflineMode, fullPageReplacement,
          reconnectTimers, pollInFlight, pollTimers, restInFlight,
          restCancelButtons, handler, issued, shown, failedAttempts,
          body, writes, scheduled>>

RestWriters == {"createTaskRestMode", "createCustomTaskRestMode", "cancelTaskRestMode"}
PollOutcomes == {"ok", "not_success", "http_error", "network_error"}
WriteOutcomes == {"success", "failure", "network_error"}

NoWrites == [w \in RestWriters |-> 0]

RestWritesPending == restInFlight["createTaskRestMode"]
                     + restInFlight["createCustomTaskRestMode"]
                     + restInFlight["cancelTaskRestMode"]

PollLoops == pollInFlight + pollTimers

\* No handler runs between the error and the close event of one failure.
BetweenTasks == ~wsCloseDue

Min(a, b) == IF a < b THEN a ELSE b

SeqsUpTo(S, n) == UNION {[1..k -> S] : k \in 0..n}

(***************************************************************************)
(* The task grid.  A column is a child of #task-grid: the textContent of   *)
(* its .task-count and the innerHTML of its .task-list, Absent when it has *)
(* no such element (querySelector returns null).                           *)
(***************************************************************************)
\* const statusNames = ['InProgress', 'Completed', 'Error'];
statusNames == <<"InProgress", "Completed", "Error">>

Absent == "absent"
EmptyState == "<div class=\"empty-state\">No tasks yet...</div>"

Column(count, list) == [count |-> count, list |-> list]

\* The columns a server-rendered page or fragment is made of: one list under
\* two counts and one count over two lists among them.
ServerColumns == {Column("0", EmptyState), Column("1", "<div>task a</div>"),
                  Column("1", "<div>task b</div>"), Column("2", "<div>task b</div>"),
                  Column(Absent, Absent)}

(***************************************************************************)
(* An html string by what parsing it gives: its text outside the grid,     *)
(* whether it has a #task-grid, and its .task-column elements.             *)
(***************************************************************************)
Html(text, taskGrid, children) ==
    [text |-> text, taskGrid |-> taskGrid, children |-> children]

\* data.html of a message that has no html field: the value undefined, which
\* DOMParser.parseFromString and innerHTML take as the string "undefined".
undefinedHtml == Html("undefined", FALSE, <<>>)
emptyHtml == Html("", FALSE, <<>>)

\* !newHtml
Falsy(html) == html \in {undefinedHtml, emptyHtml}

Pages == {Html("page", FALSE, <<>>)}
         \cup {Html("page", TRUE, c) : c \in SeqsUpTo(ServerColumns, Len(statusNames))}
Fragments == {Html("fragment", FALSE, c) : c \in SeqsUpTo(ServerColumns, MaxPatch)}


\* The page as served, before any message: a grid of three empty columns.
InitialPage == Html("page", TRUE, [i \in 1..Len(statusNames) |-> Column("0", EmptyState)])

(***************************************************************************)
(* event.data of a message event, by what JSON.parse gives: a SyntaxError, *)
(* the value null, or an object with a type and, possibly, an html field.  *)
(***************************************************************************)
Data(json, type, html) == [json |-> json, type |-> type, html |-> html]

\* A full_page_load carries a page, a task_grid_update a fragment of columns;
\* either may come without its html field or with an empty one.  "pong" is a
\* type the handler does not know.
Messages ==
    {Data("SyntaxError", "", undefinedHtml), Data("null", "", undefinedHtml),
     Data("object", "pong", undefinedHtml)}
    \cup {Data("object", "full_page_load", h) : h \in {undefinedHtml, emptyHtml} \cup Pages}
    \cup {Data("object", "task_grid_update", h) :
             h \in {undefinedHtml, emptyHtml} \cup Fragments}

\* A task of a poll result: its id and its status.
Task(id, status) == [id |-> id, status |-> status]

\* data.data.tasks of a poll result: tasks of distinct ids, in any order.
TaskLists ==
    {tasks \in SeqsUpTo({Task(id, statusNames[i]) :
                            id \in 1..MaxTasks, i \in 1..Len(statusNames)}, MaxTasks) :
        \A i, j \in 1..Len(tasks) : tasks[i].id = tasks[j].id => i = j}

\* The poll results the supervisor is run with: no task, one task in progress.
FewTasks == {<<>>, <<Task(1, "InProgress")>>}

\* The filter giving the tasks of a status the last one first.
TasksOf_LastFirst(tasks, status) ==
    LET kept == SelectSeq(tasks, LAMBDA t : t.status = status)
    IN  [i \in 1..Len(kept) |-> kept[Len(kept) + 1 - i]]

\* tasks.filter(t => t.status === status)
TasksOf(tasks, status) == SelectSeq(tasks, LAMBDA t : t.status = status)

\* tasks.filter(t => t.status === status).length
CountOf(tasks, status) == Len(TasksOf(tasks, status))

(***************************************************************************)
(* updateTaskGrid(newHtml) on a document: the document after it, and the   *)
(* fields it assigned.  The index-th .task-column of newHtml goes to the   *)
(* index-th child of #task-grid.                                           *)
(***************************************************************************)
\* The forEach body with the new list added to the existing one
\* (insertAdjacentHTML) instead of replacing it.
updateColumn_AppendsList(existingColumn, newColumn) ==
    [count |-> IF /\ newColumn.count # Absent
                  /\ existingColumn.count # Absent
                  /\ newColumn.count # existingColumn.count
               THEN newColumn.count
               ELSE existingColumn.count,
     list  |-> IF /\ newColumn.list # Absent
                  /\ existingColumn.list # Absent
                  /\ newColumn.list # existingColumn.list
               THEN existingColumn.list \o newColumn.list
               ELSE existingColumn.list]

\* One pass of the forEach body: the existing column after it.
updateColumn(existingColumn, newColumn) ==
    [count |-> IF /\ newColumn.count # Absent
                  /\ existingColumn.count # Absent
                  /\ newColumn.count # existingColumn.count
               THEN newColumn.count
               ELSE existingColumn.count,
     list  |-> IF /\ newColumn.list # Absent
                  /\ existingColumn.list # Absent
                  /\ newColumn.list # existingColumn.list
               THEN newColumn.list
               ELSE existingColumn.list]

\* The forEach body with one condition for the two fields: both are assigned
\* when either differs.
updateColumnWrites_GatedTogether(existingColumn, newColumn, index) ==
    IF \/ /\ newColumn.count # Absent
          /\ existingColumn.count # Absent
          /\ newColumn.count # existingColumn.count
       \/ /\ newColumn.list # Absent
          /\ existingColumn.list # Absent
          /\ newColumn.list # existingColumn.list
    THEN {<<index, "count">> : x \in {c \in {newColumn.count} :
                                        c # Absent /\ existingColumn.count # Absent}}
         \cup {<<index, "list">> : x \in {l \in {newColumn.list} :
                                            l # Absent /\ existingColumn.list # Absent}}
    ELSE {}

\* The fields that pass assigned.
updateColumnWrites(existingColumn, newColumn, index) ==
    {<<index, "count">> : x \in {c \in {newColumn.count} :
                                   /\ c # Absent
                                   /\ existingColumn.count # Absent
                                   /\ c # existingColumn.count}}
    \cup {<<index, "list">> : x \in {l \in {newColumn.list} :
                                       /\ l # Absent
                                       /\ existingColumn.list # Absent
                                       /\ l # existingColumn.list}}

\* updateTaskGrid giving up on a patch that has a column the grid has not.
updateTaskGrid_RejectsLongPatch(document, newHtml) ==
    IF ~document.taskGrid \/ Falsy(newHtml)
    THEN document
    ELSE IF Len(newHtml.children) > Len(document.children)
    THEN document
    ELSE [document EXCEPT !.children =
            [index \in 1..Len(document.children) |->
                IF index <= Len(newHtml.children)
                THEN updateColumn(document.children[index], newHtml.children[index])
                ELSE document.children[index]]]

\* updateTaskGrid appending the columns of the patch that the grid has not.
updateTaskGrid_AppendsColumns(document, newHtml) ==
    IF ~document.taskGrid \/ Falsy(newHtml)
    THEN document
    ELSE [document EXCEPT !.children =
            [index \in 1..Len(document.children) |->
                updateColumn(document.children[index],
                             IF index <= Len(newHtml.children)
                             THEN newHtml.children[index]
                             ELSE Column(Absent, Absent))]
            \o SubSeq(newHtml.children, Len(document.children) + 1,
                      Len(newHtml.children))]

updateTaskGrid(document, newHtml) ==
    IF ~document.taskGrid \/ Falsy(newHtml)
    THEN document
    ELSE [document EXCEPT !.children =
            [index \in 1..Len(document.children) |->
                IF index <= Len(newHtml.children)
                THEN updateColumn(document.children[index], newHtml.children[index])
                ELSE document.children[index]]]

updateTaskGridWrites(document, newHtml) ==
    IF ~document.taskGrid \/ Falsy(newHtml)
    THEN {}
    ELSE UNION {updateColumnWrites(document.children[index],
                                   newHtml.children[index], index) :
                  index \in 1..Min(Len(document.children), Len(newHtml.children))}

(***************************************************************************)
(* updateTaskGridFromRestData(tasks) on a document.  Every column gets the *)
(* count and the list of its status, assigned without a comparison; a      *)
(* column past statusNames has status undefined and so no tasks.           *)
(***************************************************************************)
\* status.toLowerCase()
toLowerCase(status) ==
    CASE status = "InProgress" -> "inprogress"
      [] status = "Completed" -> "completed"
      [] status = "Error" -> "error"
      [] OTHER -> status

\* The card the template renders for one task: its class, the task, and the
\* cancel button of a task in progress.
RestCard(status, task) ==
    "<div class=\"task-card " \o toLowerCase(status) \o "\">" \o ToString(task.id)
      \o (IF status = "InProgress" THEN "<button class=\"btn-cancel\">" ELSE "")
      \o "</div>"

RECURSIVE Join(_)
\* array.join('')
Join(strings) ==
    IF strings = <<>> THEN "" ELSE Head(strings) \o Join(Tail(strings))

\* The innerHTML the list of a status is given.
RestCards(status, statusTasks) ==
    IF Len(statusTasks) = 0
    THEN EmptyState
    ELSE Join([i \in 1..Len(statusTasks) |-> RestCard(status, statusTasks[i])])

\* tasksByStatus[status] || []
StatusTasks(tasks, index) ==
    IF index <= Len(statusNames) THEN TasksOf(tasks, statusNames[index]) ELSE <<>>

StatusName(index) ==
    IF index <= Len(statusNames) THEN statusNames[index] ELSE "undefined"

updateTaskGridFromRestData(document, tasks) ==
    IF ~document.taskGrid
    THEN document
    ELSE [document EXCEPT !.children =
            [index \in 1..Len(document.children) |->
                [count |-> IF document.children[index].count # Absent
                           THEN ToString(Len(StatusTasks(tasks, index)))
                           ELSE Absent,
                 list  |-> IF document.children[index].list # Absent
                           THEN RestCards(StatusName(index), StatusTasks(tasks, index))
                           ELSE Absent]]]

updateTaskGridFromRestDataWrites(document) ==
    IF ~document.taskGrid
    THEN {}
    ELSE {<<index, "count">> : index \in {i \in 1..Len(document.children) :
                                            document.children[i].count # Absent}}
         \cup {<<index, "list">> : index \in {i \in 1..Len(document.children) :
                                                document.children[i].list # Absent}}

\* The grid shows a cancel button of cancelTaskRestMode: a card of the
\* InProgress column rendered by updateTaskGridFromRestData.
RestCancelButtonsIn(document, tasks) ==
    /\ document.taskGrid
    /\ Len(document.children) >= 1
    /\ document.children[1].list # Absent
    /\ CountOf(tasks, "InProgress") > 0

TypeOK ==
    /\ wsReadyState \in {"CONNECTING", "OPEN", "CLOSING", "CLOSED"}
    /\ wsCloseDue \in BOOLEAN
    /\ staleClosePending \in 0..MaxStale
    /\ isConnecting \in BOOLEAN
    /\ connectionAttempts \in Nat
    /\ isOfflineMode \in BOOLEAN
    /\ fullPageReplacement \in BOOLEAN
    /\ reconnectTimers \in 0..MaxTimers
    /\ pollInFlight \in 0..MaxPollLoops
    /\ pollTimers \in 0..MaxPollLoops
    /\ restInFlight \in [RestWriters -> 0..MaxWrites]
    /\ restCancelButtons \in BOOLEAN
    /\ issued \in Seq(STRING)
    /\ shown \in Seq(STRING)
    /\ handler \in STRING \X STRING
    /\ failedAttempts \in Nat
    /\ body.taskGrid \in BOOLEAN
    /\ body.children \in Seq([count : STRING, list : STRING])
    /\ writes \subseteq (Nat \X {"count", "list", "body"})
    /\ Len(scheduled) <= 1

\* Math.random() * 1000, in whole milliseconds: the least and the greatest.
Jitters == {0, 999}

\* A setTimeout of the last handler: its callback and its delay, the jitter
\* apart.
Timer(callback, delay, jitter) == [callback |-> callback, delay |-> delay, jitter |-> jitter]

\* The delay without Math.min: no cap.
backoffDelay_NoCap(attempts) == reconnectDelay * 2^attempts

\* Math.min(reconnectDelay * Math.pow(2, connectionAttempts), 30000)
backoffDelay(attempts) == Min(reconnectDelay * 2^attempts, 30000)

\* A handler that assigns nothing in the grid.
gridUntouched == UNCHANGED body /\ writes' = {}

(***************************************************************************)
(* The state after the script has loaded: initWebSocketConnection() has    *)
(* called connect(), which created the first socket.                       *)
(***************************************************************************)
Init ==
    /\ wsReadyState = "CONNECTING"
    /\ wsCloseDue = FALSE
    /\ staleClosePending = 0
    /\ isConnecting = TRUE
    /\ connectionAttempts = 0
    /\ isOfflineMode = FALSE
    /\ fullPageReplacement = FALSE
    /\ reconnectTimers = 0
    /\ pollInFlight = 0
    /\ pollTimers = 0
    /\ restInFlight = NoWrites
    /\ restCancelButtons = FALSE
    /\ handler = <<"connect", "created">>
    /\ issued = <<"ws:connect">>
    /\ shown = <<>>
    /\ failedAttempts = 0
    /\ body = InitialPage
    /\ writes = {}
    /\ scheduled = <<>>

(***************************************************************************)
(* startRestApiPolling(): defines poll and calls it; poll runs up to its   *)
(* first await, which issues the read request.                             *)
(***************************************************************************)
startRestApiPolling ==
    /\ PollLoops < MaxPollLoops
    /\ pollInFlight' = pollInFlight + 1
    /\ issued' = <<"GET /api/tasks">>
    /\ UNCHANGED pollTimers

switchToOfflineMode ==
    /\ isOfflineMode' = TRUE
    /\ scheduled' = <<>>
    /\ shown' = <<"warning: WebSocket unavailable - Using polling fallback">>
    /\ startRestApiPolling

\* handleReconnection computing the delay from the counter before its increment.
handleReconnection_DelayOfPreviousCount(attempts) ==
    IF attempts >= maxReconnectAttempts
    THEN /\ switchToOfflineMode
         /\ UNCHANGED reconnectTimers
    ELSE /\ reconnectTimers < MaxTimers
         /\ reconnectTimers' = reconnectTimers + 1
         /\ \E jitter \in Jitters :
              scheduled' = <<Timer("connect", backoffDelay(attempts - 1), jitter)>>
         /\ issued' = <<>>
         /\ shown' = <<>>
         /\ UNCHANGED <<isOfflineMode, pollInFlight, pollTimers>>

\* handleReconnection with > for >= : one more reconnect before going offline.
handleReconnection_OffByOne(attempts) ==
    IF attempts > maxReconnectAttempts
    THEN /\ switchToOfflineMode
         /\ UNCHANGED reconnectTimers
    ELSE /\ reconnectTimers < MaxTimers
         /\ reconnectTimers' = reconnectTimers + 1
         /\ \E jitter \in Jitters :
              scheduled' = <<Timer("connect", backoffDelay(attempts), jitter)>>
         /\ issued' = <<>>
         /\ shown' = <<>>
         /\ UNCHANGED <<isOfflineMode, pollInFlight, pollTimers>>

\* handleReconnection giving up when the budget is spent: no reconnect and no
\* offline mode.
handleReconnection_GivesUp(attempts) ==
    IF attempts >= maxReconnectAttempts
    THEN /\ issued' = <<>>
         /\ shown' = <<>>
         /\ scheduled' = <<>>
         /\ UNCHANGED <<isOfflineMode, reconnectTimers, pollInFlight, pollTimers>>
    ELSE /\ reconnectTimers < MaxTimers
         /\ reconnectTimers' = reconnectTimers + 1
         /\ \E jitter \in Jitters :
              scheduled' = <<Timer("connect", backoffDelay(attempts), jitter)>>
         /\ issued' = <<>>
         /\ shown' = <<>>
         /\ UNCHANGED <<isOfflineMode, pollInFlight, pollTimers>>

(***************************************************************************)
(* handleReconnection(), called with the counter already incremented.      *)
(***************************************************************************)
handleReconnection(attempts) ==
    IF attempts >= maxReconnectAttempts
    THEN /\ switchToOfflineMode
         /\ UNCHANGED reconnectTimers
    ELSE /\ reconnectTimers < MaxTimers
         /\ reconnectTimers' = reconnectTimers + 1
         /\ \E jitter \in Jitters :
              scheduled' = <<Timer("connect", backoffDelay(attempts), jitter)>>
         /\ issued' = <<>>
         /\ shown' = <<>>
         /\ UNCHANGED <<isOfflineMode, pollInFlight, pollTimers>>

\* The bounds of the model leave room for what the close event that follows
\* an error event will do (it will call handleReconnection(attempts)).
CloseFits(attempts) ==
    \/ fullPageReplacement
    \/ attempts >= maxReconnectAttempts /\ pollInFlight' + pollTimers' < MaxPollLoops
    \/ attempts < maxReconnectAttempts /\ reconnectTimers' < MaxTimers

\* The branch of onclose/onerror taken when window.fullPageReplacement is set.
notReconnecting ==
    /\ issued' = <<>>
    /\ shown' = <<>>
    /\ scheduled' = <<>>
    /\ UNCHANGED <<isOfflineMode, reconnectTimers, pollInFlight, pollTimers>>

\* connect() without its two early returns, as in the simpler manager.
connect_Unguarded ==
    /\ handler' = <<"connect", "created">>
    /\ isConnecting' = TRUE
    /\ wsReadyState' = "CONNECTING"
    /\ IF wsReadyState = "CLOSING"
       THEN /\ staleClosePending < MaxStale
            /\ staleClosePending' = staleClosePending + 1
       ELSE UNCHANGED staleClosePending
    /\ issued' = <<"ws:connect">>
    /\ UNCHANGED wsCloseDue

(***************************************************************************)
(* connect(), as called by a reconnect timer.                              *)
(***************************************************************************)
connect ==
    IF isConnecting \/ wsReadyState = "CONNECTING"
    THEN /\ handler' = <<"connect", "skipped">>
         /\ issued' = <<>>
         /\ UNCHANGED <<wsReadyState, wsCloseDue, staleClosePending, isConnecting>>
    ELSE IF wsReadyState = "OPEN"
    THEN /\ handler' = <<"connect", "skipped">>
         /\ issued' = <<>>
         /\ UNCHANGED <<wsReadyState, wsCloseDue, staleClosePending, isConnecting>>
    ELSE /\ handler' = <<"connect", "created">>
         /\ isConnecting' = TRUE
         /\ wsReadyState' = "CONNECTING"
         /\ IF wsReadyState = "CLOSING"
            THEN /\ staleClosePending < MaxStale
                 /\ staleClosePending' = staleClosePending + 1
            ELSE UNCHANGED staleClosePending
         /\ issued' = <<"ws:connect">>
         /\ UNCHANGED wsCloseDue

ReconnectTimerFire ==
    /\ BetweenTasks
    /\ reconnectTimers > 0
    /\ reconnectTimers' = reconnectTimers - 1
    /\ connect
    /\ shown' = <<>>
    /\ scheduled' = <<>>
    /\ gridUntouched
    /\ UNCHANGED <<connectionAttempts, isOfflineMode, fullPageReplacement,
                   pollInFlight, pollTimers, restInFlight, restCancelButtons,
                   failedAttempts>>

\* onopen without its reset of the retry counter.
onopen_KeepsCounter ==
    /\ BetweenTasks
    /\ wsReadyState = "CONNECTING"
    /\ wsReadyState' = "OPEN"
    /\ isConnecting' = FALSE
    /\ handler' = <<"onopen", IF connectionAttempts > 0 THEN "reset" ELSE "was 0">>
    /\ issued' = <<>>
    /\ shown' = <<>>
    /\ scheduled' = <<>>
    /\ gridUntouched
    /\ failedAttempts' = 0
    /\ UNCHANGED <<connectionAttempts, wsCloseDue, staleClosePending, isOfflineMode,
                   fullPageReplacement, reconnectTimers, pollInFlight, pollTimers,
                   restInFlight, restCancelButtons>>

onopen ==
    /\ BetweenTasks
    /\ wsReadyState = "CONNECTING"
    /\ wsReadyState' = "OPEN"
    /\ isConnecting' = FALSE
    /\ connectionAttempts' = 0
    /\ handler' = <<"onopen", IF connectionAttempts > 0 THEN "reset" ELSE "was 0">>
    /\ issued' = <<>>
    /\ shown' = <<>>
    /\ scheduled' = <<>>
    /\ gridUntouched
    /\ failedAttempts' = 0
    /\ UNCHANGED <<wsCloseDue, staleClosePending, isOfflineMode, fullPageReplacement,
                   reconnectTimers, pollInFlight, pollTimers, restInFlight,
                   restCancelButtons>>

\* onmessage setting a timer to connect again after a full page load, as a
\* page that replaced its own script would need.
onmessage_ReconnectsAfterFullPage(data) ==
    /\ BetweenTasks
    /\ wsReadyState = "OPEN"
    /\ data.json = "object"
    /\ data.type = "full_page_load"
    /\ reconnectTimers < MaxTimers
    /\ reconnectTimers' = reconnectTimers + 1
    /\ issued' = <<>>
    /\ shown' = <<>>
    /\ scheduled' = <<Timer("connect", 100, 0)>>
    /\ handler' = <<"onmessage", IF data.html = undefinedHtml
                                 THEN "full_page_load without html"
                                 ELSE "full_page_load">>
    /\ body' = data.html
    /\ writes' = {<<0, "body">>}
    /\ restCancelButtons' = FALSE
    /\ UNCHANGED <<wsReadyState, wsCloseDue, staleClosePending, isConnecting,
                   connectionAttempts, isOfflineMode, fullPageReplacement,
                   pollInFlight, pollTimers, restInFlight, failedAttempts>>

(***************************************************************************)
(* onmessage of window.ws.  JSON.parse throws a SyntaxError on text that   *)
(* is no JSON, and data.type throws a TypeError when the text is the JSON  *)
(* null; both are caught.  A full_page_load assigns document.body.innerHTML*)
(* (parseFromString always gives a body); a task_grid_update calls         *)
(* updateTaskGrid; any other type does nothing.                            *)
(***************************************************************************)
onmessage(data) ==
    /\ BetweenTasks
    /\ wsReadyState = "OPEN"
    /\ issued' = <<>>
    /\ shown' = <<>>
    /\ scheduled' = <<>>
    /\ IF data.json = "SyntaxError"
       THEN /\ handler' = <<"onmessage", "caught SyntaxError">>
            /\ gridUntouched
            /\ UNCHANGED restCancelButtons
       ELSE IF data.json = "null"
       THEN /\ handler' = <<"onmessage", "caught TypeError">>
            /\ gridUntouched
            /\ UNCHANGED restCancelButtons
       ELSE IF data.type = "full_page_load"
       THEN /\ handler' = <<"onmessage", IF data.html = undefinedHtml
                                         THEN "full_page_load without html"
                                         ELSE "full_page_load">>
            /\ body' = data.html
            /\ writes' = {<<0, "body">>}
            /\ restCancelButtons' = FALSE
       ELSE IF data.type = "task_grid_update"
       THEN /\ handler' = <<"onmessage", IF data.html = undefinedHtml
                                         THEN "task_grid_update without html"
                                         ELSE "task_grid_update">>
            /\ body' = updateTaskGrid(body, data.html)
            /\ writes' = updateTaskGridWrites(body, data.html)
            /\ restCancelButtons' = (restCancelButtons /\ <<1, "list">> \notin writes')
       ELSE /\ handler' = <<"onmessage", "unknown type">>
            /\ gridUntouched
            /\ UNCHANGED restCancelButtons
    /\ UNCHANGED <<wsReadyState, wsCloseDue, staleClosePending, isConnecting,
                   connectionAttempts, isOfflineMode, fullPageReplacement,
                   reconnectTimers, pollInFlight, pollTimers, restInFlight,
                   failedAttempts>>

\* What onclose does to the globals, whichever socket fired it.
oncloseBody ==
    /\ isConnecting' = FALSE
    /\ connectionAttempts' = connectionAttempts + 1
    /\ IF ~fullPageReplacement
       THEN handleReconnection(connectionAttempts + 1)
       ELSE notReconnecting
    /\ gridUntouched
    /\ UNCHANGED <<fullPageReplacement, restInFlight, restCancelButtons>>

\* The close event of window.ws: alone, or right after its error event.
onclose ==
    /\ wsReadyState \in {"CONNECTING", "OPEN", "CLOSING"} \/ wsCloseDue
    /\ wsReadyState' = "CLOSED"
    /\ wsCloseDue' = FALSE
    /\ handler' = <<"onclose", IF wsCloseDue THEN "after error" ELSE "alone">>
    /\ failedAttempts' = IF wsCloseDue THEN failedAttempts ELSE failedAttempts + 1
    /\ oncloseBody
    /\ UNCHANGED staleClosePending

\* The close event of a socket that connect() replaced while it was CLOSING.
oncloseStale ==
    /\ BetweenTasks
    /\ staleClosePending > 0
    /\ staleClosePending' = staleClosePending - 1
    /\ handler' = <<"onclose", "replaced socket">>
    /\ oncloseBody
    /\ UNCHANGED <<wsReadyState, wsCloseDue, failedAttempts>>

\* onerror without connectionAttempts++.
onerror_KeepsCounter(closeFollows) ==
    /\ BetweenTasks
    /\ wsReadyState \in {"CONNECTING", "OPEN", "CLOSING"}
    /\ wsReadyState' = "CLOSED"
    /\ wsCloseDue' = closeFollows
    /\ isConnecting' = FALSE
    /\ UNCHANGED connectionAttempts
    /\ handler' = <<"onerror", IF closeFollows THEN "close follows" ELSE "alone">>
    /\ failedAttempts' = failedAttempts + 1
    /\ IF ~fullPageReplacement
       THEN handleReconnection(connectionAttempts)
       ELSE notReconnecting
    /\ closeFollows => CloseFits(connectionAttempts + 1)
    /\ gridUntouched
    /\ UNCHANGED <<staleClosePending, fullPageReplacement, restInFlight,
                   restCancelButtons>>

\* The error event of window.ws; closeFollows: its close event comes next.
onerror(closeFollows) ==
    /\ BetweenTasks
    /\ wsReadyState \in {"CONNECTING", "OPEN", "CLOSING"}
    /\ wsReadyState' = "CLOSED"
    /\ wsCloseDue' = closeFollows
    /\ isConnecting' = FALSE
    /\ connectionAttempts' = connectionAttempts + 1
    /\ handler' = <<"onerror", IF closeFollows THEN "close follows" ELSE "alone">>
    /\ failedAttempts' = failedAttempts + 1
    /\ IF ~fullPageReplacement
       THEN handleReconnection(connectionAttempts + 1)
       ELSE notReconnecting
    /\ closeFollows => CloseFits(connectionAttempts + 2)
    /\ gridUntouched
    /\ UNCHANGED <<staleClosePending, fullPageReplacement, restInFlight,
                   restCancelButtons>>

\* The server starts the closing handshake: readyState becomes CLOSING and
\* no event fires until the connection is closed.
closingHandshake ==
    /\ BetweenTasks
    /\ wsReadyState = "OPEN"
    /\ wsReadyState' = "CLOSING"
    /\ handler' = <<"network", "closing handshake">>
    /\ issued' = <<>>
    /\ shown' = <<>>
    /\ scheduled' = <<>>
    /\ gridUntouched
    /\ UNCHANGED <<wsCloseDue, staleClosePending, isConnecting,
                   connectionAttempts, isOfflineMode, fullPageReplacement,
                   reconnectTimers, pollInFlight, pollTimers, restInFlight,
                   restCancelButtons, failedAttempts>>

\* Some script of the page sets window.fullPageReplacement.
SetFullPageReplacement ==
    /\ BetweenTasks
    /\ ~fullPageReplacement
    /\ fullPageReplacement' = TRUE
    /\ handler' = <<"page script", "fullPageReplacement">>
    /\ issued' = <<>>
    /\ shown' = <<>>
    /\ scheduled' = <<>>
    /\ gridUntouched
    /\ UNCHANGED <<wsReadyState, wsCloseDue, staleClosePending, isConnecting,
                   connectionAttempts, isOfflineMode, reconnectTimers,
                   pollInFlight, pollTimers, restInFlight, restCancelButtons,
                   failedAttempts>>

(***************************************************************************)
(* poll, from the response of fetch('/api/tasks') to its end.              *)
(*   "ok":            response.ok and data.success && data.data; the grid  *)
(*                    is rendered from data.data.tasks (each task with     *)
(*                    status InProgress gets a cancel button)              *)
(*   "not_success":   a parsed body without success/data: nothing is done  *)
(*   "http_error":    !response.ok, thrown and caught                      *)
(*   "network_error": fetch or response.json() rejects, caught             *)
(***************************************************************************)
\* poll with its rescheduling inside the try block: an error skips it.
PollResponse_StopsOnError(outcome, tasks) ==
    /\ BetweenTasks
    /\ pollInFlight > 0
    /\ handler' = <<"poll", outcome>>
    /\ issued' = <<>>
    /\ restCancelButtons' = IF outcome = "ok" /\ body.taskGrid
                            THEN RestCancelButtonsIn(body, tasks)
                            ELSE restCancelButtons
    /\ body' = IF outcome = "ok" THEN updateTaskGridFromRestData(body, tasks) ELSE body
    /\ writes' = IF outcome = "ok" THEN updateTaskGridFromRestDataWrites(body) ELSE {}
    /\ shown' = IF outcome \in {"ok", "not_success"}
                THEN <<>>
                ELSE <<"error: Server unavailable - Retrying...">>
    /\ pollInFlight' = pollInFlight - 1
    /\ pollTimers' = IF isOfflineMode /\ outcome \in {"ok", "not_success"}
                     THEN pollTimers + 1
                     ELSE pollTimers
    /\ scheduled' = IF isOfflineMode /\ outcome \in {"ok", "not_success"}
                    THEN <<Timer("poll", pollInterval, 0)>>
                    ELSE <<>>
    /\ UNCHANGED <<wsReadyState, wsCloseDue, staleClosePending, isConnecting,
                   connectionAttempts, isOfflineMode, fullPageReplacement,
                   reconnectTimers, restInFlight, failedAttempts>>

PollResponse(outcome, tasks) ==
    /\ BetweenTasks
    /\ pollInFlight > 0
    /\ handler' = <<"poll", outcome>>
    /\ issued' = <<>>
    /\ IF outcome = "ok"
       THEN /\ body' = updateTaskGridFromRestData(body, tasks)
            /\ writes' = updateTaskGridFromRestDataWrites(body)
            /\ restCancelButtons' = IF body.taskGrid
                                    THEN RestCancelButtonsIn(body, tasks)
                                    ELSE restCancelButtons
            /\ shown' = <<>>
       ELSE IF outcome = "not_success"
       THEN /\ shown' = <<>>
            /\ gridUntouched
            /\ UNCHANGED restCancelButtons
       ELSE /\ shown' = <<"error: Server unavailable - Retrying...">>
            /\ gridUntouched
            /\ UNCHANGED restCancelButtons
    /\ IF isOfflineMode
       THEN /\ pollTimers' = pollTimers + 1
            /\ pollInFlight' = pollInFlight - 1
            /\ scheduled' = <<Timer("poll", pollInterval, 0)>>
       ELSE /\ pollInFlight' = pollInFlight - 1
            /\ scheduled' = <<>>
            /\ UNCHANGED pollTimers
    /\ UNCHANGED <<wsReadyState, wsCloseDue, staleClosePending, isConnecting,
                   connectionAttempts, isOfflineMode, fullPageReplacement,
                   reconnectTimers, restInFlight, failedAttempts>>

\* setTimeout(poll, pollInterval) fires: poll runs up to its fetch.
PollTimerFire ==
    /\ BetweenTasks
    /\ pollTimers > 0
    /\ pollTimers' = pollTimers - 1
    /\ pollInFlight' = pollInFlight + 1
    /\ handler' = <<"poll", "fetch">>
    /\ issued' = <<"GET /api/tasks">>
    /\ shown' = <<>>
    /\ scheduled' = <<>>
    /\ gridUntouched
    /\ UNCHANGED <<wsReadyState, wsCloseDue, staleClosePending, isConnecting,
                   connectionAttempts, isOfflineMode, fullPageReplacement,
                   reconnectTimers, restInFlight, restCancelButtons,
                   failedAttempts>>

\* What no user action touches.
supervisorVars == <<wsReadyState, wsCloseDue, staleClosePending, isConnecting,
                    connectionAttempts, isOfflineMode, fullPageReplacement,
                    reconnectTimers, pollInFlight, pollTimers,
                    restCancelButtons, failedAttempts, body>>

\* A user action, or what follows its await, sets no timer and assigns
\* nothing in the grid.
userAction == UNCHANGED supervisorVars /\ writes' = {} /\ scheduled' = <<>>

\* A REST write function up to its await fetch(...).
restRequest(writer, request) ==
    /\ RestWritesPending < MaxWrites
    /\ restInFlight' = [restInFlight EXCEPT ![writer] = @ + 1]
    /\ issued' = <<request>>

createTask ==
    /\ BetweenTasks
    /\ handler' = <<"createTask", "call">>
    /\ shown' = <<>>
    /\ IF wsReadyState = "OPEN" /\ ~isOfflineMode
       THEN /\ issued' = <<"ws:create_task">>
            /\ UNCHANGED restInFlight
       ELSE restRequest("createTaskRestMode", "POST /api/tasks")
    /\ userAction

\* The form's submit handler; taskMessage is the trimmed message field.
createCustomTask(taskMessage) ==
    /\ BetweenTasks
    /\ handler' = <<"createCustomTask", IF taskMessage = "" THEN "no message" ELSE "call">>
    /\ shown' = <<>>
    /\ IF taskMessage = ""
       THEN /\ issued' = <<>>
            /\ UNCHANGED restInFlight
       ELSE IF wsReadyState = "OPEN" /\ ~isOfflineMode
       THEN /\ issued' = <<"ws:create_custom_task">>
            /\ UNCHANGED restInFlight
       ELSE restRequest("createCustomTaskRestMode", "POST /api/tasks")
    /\ userAction

\* cancelTask without its readyState check.
cancelTask_SendsUnchecked ==
    /\ BetweenTasks
    /\ shown' = <<>>
    /\ handler' = <<"cancelTask", IF wsReadyState = "OPEN" THEN "sent" ELSE "not connected">>
    /\ issued' = <<"ws:cancel_task">>
    /\ UNCHANGED restInFlight
    /\ userAction

cancelTask ==
    /\ BetweenTasks
    /\ shown' = <<>>
    /\ IF wsReadyState = "OPEN"
       THEN /\ handler' = <<"cancelTask", "sent">>
            /\ issued' = <<"ws:cancel_task">>
       ELSE /\ handler' = <<"cancelTask", "not connected">>
            /\ issued' = <<>>
    /\ UNCHANGED restInFlight
    /\ userAction

\* Called by the user and every 2 s by startAutoRefresh's interval.
refreshTasks ==
    /\ BetweenTasks
    /\ shown' = <<>>
    /\ IF wsReadyState = "OPEN"
       THEN /\ handler' = <<"refreshTasks", "sent">>
            /\ issued' = <<"ws:refresh">>
       ELSE /\ handler' = <<"refreshTasks", "not connected">>
            /\ issued' = <<>>
    /\ UNCHANGED restInFlight
    /\ userAction

\* The onclick of a cancel button that updateTaskGridFromRestData rendered.
cancelTaskRestMode ==
    /\ BetweenTasks
    /\ restCancelButtons
    /\ handler' = <<"cancelTaskRestMode", "call">>
    /\ shown' = <<>>
    /\ restRequest("cancelTaskRestMode", "DELETE /api/tasks/{id}")
    /\ userAction

(***************************************************************************)
(* A REST write function from its response to its end.  "failure" is a     *)
(* body with success false, "network_error" a rejected fetch or json().    *)
(* showConnectionStatus displays only its error and warning messages, so   *)
(* the 'info' message of a success displays nothing.                       *)
(***************************************************************************)
\* A REST write function that sends its request again when it failed.
RestWriteResponse_Retries(writer, outcome) ==
    /\ BetweenTasks
    /\ restInFlight[writer] > 0
    /\ handler' = <<writer, outcome>>
    /\ IF outcome = "success"
       THEN /\ restInFlight' = [restInFlight EXCEPT ![writer] = @ - 1]
            /\ issued' = <<>>
            /\ shown' = <<>>
       ELSE /\ UNCHANGED restInFlight
            /\ issued' = <<IF writer = "cancelTaskRestMode"
                             THEN "DELETE /api/tasks/{id}"
                             ELSE "POST /api/tasks">>
            /\ shown' = IF writer = "cancelTaskRestMode"
                        THEN <<"error: Cancel failed">>
                        ELSE <<"error: Task creation failed">>
    /\ userAction

RestWriteResponse(writer, outcome) ==
    /\ BetweenTasks
    /\ restInFlight[writer] > 0
    /\ restInFlight' = [restInFlight EXCEPT ![writer] = @ - 1]
    /\ handler' = <<writer, outcome>>
    /\ issued' = <<>>
    /\ shown' = IF outcome = "success"
                THEN <<>>
                ELSE IF writer = "cancelTaskRestMode"
                THEN <<"error: Cancel failed">>
                ELSE <<"error: Task creation failed">>
    /\ userAction

Next ==
    \/ \E o \in PollOutcomes, t \in FewTasks : PollResponse(o, t)
    \/ PollTimerFire
    \/ createTask
    \/ \E m \in {"", "message"} : createCustomTask(m)
    \/ cancelTask
    \/ refreshTasks
    \/ cancelTaskRestMode
    \/ \E w \in RestWriters, o \in WriteOutcomes : RestWriteResponse(w, o)
    \/ ReconnectTimerFire
    \/ onopen
    \/ onclose
    \/ oncloseStale
    \/ \E c \in BOOLEAN : onerror(c)
    \/ closingHandshake
    \/ SetFullPageReplacement

Spec == Init /\ [][Next]_vars

\* The close event that ends the task an error event began.
CloseAfterError == wsCloseDue /\ onclose

(***************************************************************************)
(* A timer that was set eventually fires and a fetch eventually resolves   *)
(* or rejects: other tasks (an error event with its close event) only make *)
(* them wait, hence strong fairness.  A task that has begun runs to its    *)
(* end.                                                                    *)
(***************************************************************************)
\* The supervisor and the polling loop without the user's writes, which
\* leave every variable of the two unchanged (supervisorVars).
NextPolling ==
    \/ \E o \in PollOutcomes, t \in FewTasks : PollResponse(o, t)
    \/ PollTimerFire
    \/ ReconnectTimerFire
    \/ onopen
    \/ onclose
    \/ oncloseStale
    \/ \E c \in BOOLEAN : onerror(c)
    \/ closingHandshake
    \/ SetFullPageReplacement

LiveSpec ==
    /\ Init
    /\ [][NextPolling]_vars
    /\ SF_vars(PollTimerFire)
    /\ SF_vars(\E o \in PollOutcomes, t \in FewTasks : PollResponse(o, t))
    /\ WF_vars(CloseAfterError)

\* A connection attempt ends: the socket opens or fails.
AttemptEnds ==
    /\ wsReadyState = "CONNECTING"
    /\ (onopen \/ onclose \/ \E c \in BOOLEAN : onerror(c))

(***************************************************************************)
(* LiveSpec, and in addition: a reconnect timer that was set fires, and a  *)
(* connection attempt does not stay CONNECTING forever (the browser ends   *)
(* it with open or with error and close).  An open socket may stay open.   *)
(***************************************************************************)
FairSpec ==
    /\ LiveSpec
    /\ WF_vars(ReconnectTimerFire)
    /\ WF_vars(AttemptEnds)

(***************************************************************************)
(* The writers of the grid with all their inputs: the messages of the open *)
(* socket and the polls of the offline mode, and between the two the       *)
(* closes and reconnects that lead from the one to the other.              *)
(***************************************************************************)
GridNext ==
    \/ \E data \in Messages : onmessage(data)
    \/ \E o \in PollOutcomes, t \in TaskLists : PollResponse(o, t)
    \/ PollTimerFire
    \/ ReconnectTimerFire
    \/ onopen
    \/ onclose

GridSpec == Init /\ [][GridNext]_vars

(***************************************************************************)
(* The run in which the first connection opens and from then on every      *)
(* connection ends with its close event alone, before it opens.  The       *)
(* refresh interval keeps calling refreshTasks all along.                  *)
(***************************************************************************)
FirstOpen == connectionAttempts = 0 /\ onopen

CloseInARow == (wsReadyState = "OPEN" \/ connectionAttempts > 0) /\ onclose

ScenarioNext ==
    \/ FirstOpen
    \/ CloseInARow
    \/ ReconnectTimerFire
    \/ \E o \in PollOutcomes, t \in TaskLists : PollResponse(o, t)
    \/ PollTimerFire
    \/ refreshTasks

ScenarioSpec == Init /\ [][ScenarioNext]_vars

(***************************************************************************)
(* The supervisor with the full page loads of the open socket: a page     *)
(* without a grid, a page with a grid of two columns, and a message that  *)
(* has no html.                                                            *)
(***************************************************************************)
FullPageLoad(html) == Data("object", "full_page_load", html)

FewPages == {undefinedHtml, Html("page", FALSE, <<>>),
             Html("page", TRUE, <<Column("1", "<div>task a</div>"),
                                  Column("0", EmptyState)>>)}

PageNext ==
    \/ \E html \in FewPages : onmessage(FullPageLoad(html))
    \/ \E o \in PollOutcomes, t \in FewTasks : PollResponse(o, t)
    \/ PollTimerFire
    \/ ReconnectTimerFire
    \/ onopen
    \/ onclose
    \/ \E c \in BOOLEAN : onerror(c)

PageSpec == Init /\ [][PageNext]_vars

PrimaryLive == wsReadyState \in {"CONNECTING", "OPEN"}
SocketCreated == handler = <<"connect", "created">>
GetTasks == <<"GET /api/tasks">>
PostTasks == <<"POST /api/tasks">>
DeleteTask == <<"DELETE /api/tasks/{id}">>

\* C1: once offline mode has been entered, no step creates a primary
\* WebSocket, whatever timers were pending when it was entered.
C1_NoConnectAfterOffline ==
    [][isOfflineMode => ~SocketCreated']_vars

\* C2: a primary WebSocket is never CONNECTING or OPEN while the fallback
\* polling loop runs (a poll timer pending or a poll request in flight).
C2_OneAdapterActive ==
    ~(PrimaryLive /\ PollLoops > 0)

\* C3: offline mode is entered exactly when the 10th consecutive connection
\* attempt fails with no open in between, never after fewer failed attempts
\* (a close under the full-replacement flag enters nothing, see C5).
C3_OfflineAtTenthFailure ==
    [][/\ (~isOfflineMode /\ isOfflineMode')
            => failedAttempts' = maxReconnectAttempts
       /\ (failedAttempts = maxReconnectAttempts - 1
             /\ failedAttempts' = maxReconnectAttempts
             /\ ~fullPageReplacement)
            => isOfflineMode']_vars

\* C4: every open event sets connectionAttempts to 0 whatever its value was,
\* and no other step decreases it.
C4_ResetExactlyOnOpen ==
    [][/\ handler'[1] = "onopen" => connectionAttempts' = 0
       /\ connectionAttempts' < connectionAttempts => handler'[1] = "onopen"]_vars

C4_Witness ==
    /\ handler = <<"onopen", "reset">>
    /\ connectionAttempts = 0

\* C5: a close event that arrives while window.fullPageReplacement is set
\* leaves the retry counter unchanged, schedules no reconnect timer and does
\* not enter offline mode.
C5_ExpectedCloseIsInert ==
    [][(fullPageReplacement /\ handler'[1] = "onclose")
          => UNCHANGED <<connectionAttempts, reconnectTimers, isOfflineMode>>]_vars

\* C6: every create action issues exactly one write over the active adapter:
\* a WebSocket message when the primary is open and the client is not
\* offline, a POST /api/tasks when it is offline, and never a POST while it
\* is not offline.
C6_CreateUsesActiveAdapter ==
    [][(handler'[1] \in {"createTask", "createCustomTask"} /\ handler'[2] = "call")
          => /\ Len(issued') = 1
             /\ (wsReadyState = "OPEN" /\ ~isOfflineMode)
                  => issued'[1] \in {"ws:create_task", "ws:create_custom_task"}
             /\ isOfflineMode => issued' = PostTasks
             /\ ~isOfflineMode => issued' # PostTasks]_vars

\* C7: cancelTask(taskId) is delivered as one DELETE /api/tasks/{id} while
\* the client is offline and as one cancel_task message while it is connected.
C7_CancelUsesActiveAdapter ==
    [][handler'[1] = "cancelTask"
          => /\ isOfflineMode => issued' = DeleteTask
             /\ (wsReadyState = "OPEN" /\ ~isOfflineMode)
                  => issued' = <<"ws:cancel_task">>]_vars

\* C8: cancelTask and refreshTasks called while the WebSocket is not OPEN
\* transmit nothing and change no supervisor state, and nothing is kept to be
\* transmitted later: their messages go out only in the call made while OPEN.
C8_SendWhileNotOpenIsDropped ==
    [][/\ (handler'[1] \in {"cancelTask", "refreshTasks"} /\ wsReadyState # "OPEN")
            => /\ issued' = <<>>
               /\ UNCHANGED <<supervisorVars, restInFlight>>
       /\ issued' \in {<<"ws:cancel_task">>, <<"ws:refresh">>}
            => /\ handler'[1] \in {"cancelTask", "refreshTasks"}
               /\ wsReadyState = "OPEN"]_vars

C8_Witness ==
    /\ handler = <<"cancelTask", "not connected">>
    /\ wsReadyState \in {"CLOSING", "CLOSED"}
    /\ reconnectTimers > 0
    /\ issued = <<>>

\* C9: every completed poll, successful or failed, schedules the next one
\* while offline, so once offline a read request is issued again and again.
C9_PollingNeverStops ==
    /\ [][(handler'[1] = "poll" /\ handler'[2] \in PollOutcomes /\ isOfflineMode)
             => pollTimers' = pollTimers + 1]_vars
    /\ [](isOfflineMode => <>(issued = GetTasks))

C9_Witness ==
    /\ isOfflineMode
    /\ handler \in {<<"poll", "network_error">>, <<"poll", "http_error">>,
                    <<"poll", "not_success">>}
    /\ pollTimers > 0

\* C10: a failed REST write is reported once, is not sent again, and leaves
\* the poll timers, the polls in flight, the offline flag and the retry
\* counter as they were; so does the call that issued it.
C10_FailedWriteOnlyReported ==
    [][/\ (handler'[1] \in RestWriters /\ handler'[2] \in {"failure", "network_error"})
            => /\ Len(shown') = 1
               /\ issued' = <<>>
               /\ RestWritesPending' = RestWritesPending - 1
               /\ UNCHANGED supervisorVars
       /\ issued' \in {PostTasks, DeleteTask}
            => /\ handler'[2] = "call"
               /\ UNCHANGED supervisorVars]_vars

C10_Witness ==
    /\ isOfflineMode
    /\ PollLoops > 0
    /\ handler \in {<<"createTaskRestMode", "failure">>,
                    <<"cancelTaskRestMode", "network_error">>}
    /\ Len(shown) = 1
    /\ RestWritesPending = 0

\* The html values a task_grid_update can carry.
PatchHtml == {undefinedHtml, emptyHtml} \cup Fragments

\* C11: updateTaskGrid applied a second time with the same input leaves the
\* document as the first application left it and assigns nothing, for every
\* document the page can hold and every patch.
C11_PatchIdempotent ==
    \A newHtml \in PatchHtml :
        LET once == updateTaskGrid(body, newHtml)
        IN  /\ updateTaskGrid(once, newHtml) = once
            /\ updateTaskGridWrites(once, newHtml) = {}

C11_Witness ==
    /\ handler = <<"onmessage", "task_grid_update">>
    /\ Cardinality(writes) >= 3
    /\ \E newHtml \in Fragments :
          /\ Len(newHtml.children) = Len(body.children)
          /\ updateTaskGrid(InitialPage, newHtml) = body

\* The value of a column's field in a document.
FieldOf(document, w) ==
    IF w[2] = "count"
    THEN document.children[w[1]].count
    ELSE document.children[w[1]].list

RegionUpdate ==
    handler \in {<<"onmessage", "task_grid_update">>, <<"poll", "ok">>}

\* C12: neither a task_grid_update nor a poll result assigns a column's
\* count or list a value equal to the one it holds.
C12_WritesOnlyWhenDifferent ==
    [][RegionUpdate' => \A w \in writes' : FieldOf(body, w) # FieldOf(body', w)]_vars

\* A field after a patch entry was applied to it: the entry's value when both
\* elements exist.
Applied(existing, new) == IF existing # Absent /\ new # Absent THEN new ELSE existing

\* C13: a patch changes only the columns it has an entry for: a column past
\* the patch keeps its count and list, an entry past the grid's columns adds
\* nothing, and the entries within the grid are applied all the same.
C13_PatchFrame ==
    /\ [](body.taskGrid =>
           \A newHtml \in Fragments :
               LET after == updateTaskGrid(body, newHtml)
                   known == Len(body.children)
               IN  /\ after.taskGrid /\ after.text = body.text
                   /\ Len(after.children) = known
                   /\ \A index \in 1..known :
                         IF index > Len(newHtml.children)
                         THEN after.children[index] = body.children[index]
                         ELSE /\ after.children[index].count =
                                   Applied(body.children[index].count,
                                           newHtml.children[index].count)
                              /\ after.children[index].list =
                                   Applied(body.children[index].list,
                                           newHtml.children[index].list))
    /\ [][handler' = <<"onmessage", "task_grid_update">>
            => /\ body'.taskGrid = body.taskGrid /\ body'.text = body.text
               /\ Len(body'.children) = Len(body.children)
               /\ \A index \in 1..Len(body.children), field \in {"count", "list"} :
                     <<index, field>> \notin writes'
                        => FieldOf(body', <<index, field>>)
                             = FieldOf(body, <<index, field>>)]_vars

C13_Witness ==
    /\ handler = <<"onmessage", "task_grid_update">>
    /\ body.taskGrid
    /\ Len(body.children) = 2
    /\ writes = {<<1, "count">>, <<1, "list">>}
    /\ body.children[2] # body.children[1]
    /\ \E newHtml \in Fragments :
          /\ Len(newHtml.children) = 3
          /\ newHtml.children[2].count = Absent
          /\ updateTaskGrid(body, newHtml) = body

\* The cases of onmessage whose payload is malformed.
MalformedCases == {"caught SyntaxError", "caught TypeError", "unknown type",
                   "full_page_load without html", "task_grid_update without html"}

\* C14: a malformed message (no JSON, an unknown type, a full_page_load or a
\* task_grid_update without html) is dropped: the document, the retry
\* counter, the offline flag and the connection stay as they were.
C14_MalformedIsDropped ==
    [][(handler'[1] = "onmessage" /\ handler'[2] \in MalformedCases)
          => UNCHANGED <<body, connectionAttempts, isOfflineMode, wsReadyState,
                         isConnecting, reconnectTimers>>]_vars

\* The last handler set a reconnect timer.
ReconnectScheduled == scheduled # <<>> /\ scheduled[1].callback = "connect"

\* C15 as stated: the delay without its jitter is at least
\* reconnectDelay * 2^attempt and at most 30000, and the whole delay is at
\* least reconnectDelay; attempt is the value of connectionAttempts the delay
\* was computed from.
C15_DelayBetweenPowerAndCap ==
    ReconnectScheduled =>
        /\ reconnectDelay * 2^connectionAttempts <= scheduled[1].delay
        /\ scheduled[1].delay <= 30000
        /\ scheduled[1].delay + scheduled[1].jitter >= reconnectDelay

\* C15 amended: the delay without its jitter is at least reconnectDelay and
\* at most 30000, and at least reconnectDelay * 2^attempt as long as that is
\* within 30000; the whole delay is at least reconnectDelay.  For the timers
\* the program sets and for every attempt from 0 on.
C15_DelayWithinBaseAndCap ==
    /\ ReconnectScheduled =>
          /\ reconnectDelay <= scheduled[1].delay
          /\ scheduled[1].delay <= 30000
          /\ reconnectDelay * 2^connectionAttempts <= 30000
                => reconnectDelay * 2^connectionAttempts <= scheduled[1].delay
          /\ scheduled[1].delay + scheduled[1].jitter >= reconnectDelay
    /\ \A attempt \in 0..MaxAttempt, jitter \in Jitters :
          /\ reconnectDelay <= backoffDelay(attempt)
          /\ backoffDelay(attempt) <= 30000
          /\ reconnectDelay * 2^attempt <= 30000
                => reconnectDelay * 2^attempt <= backoffDelay(attempt)
          /\ backoffDelay(attempt) + jitter >= reconnectDelay

C15_Witness ==
    /\ ReconnectScheduled
    /\ connectionAttempts = 7
    /\ scheduled[1].delay = 30000
    /\ scheduled[1].jitter = 999

\* C16: the first connection opens and then ten connections in a row end
\* with a close event alone.  The closes are counted 1..10; each of the
\* first nine starts a Reconnecting phase (one reconnect timer, not offline)
\* whose timer creates the next socket, and the tenth enters offline mode,
\* sets no reconnect timer and starts the polling.
C16_TenClosesThenOffline ==
    /\ [](wsReadyState = "OPEN" => connectionAttempts = 0)
    /\ [](isOfflineMode => /\ connectionAttempts = maxReconnectAttempts
                           /\ wsReadyState = "CLOSED"
                           /\ reconnectTimers = 0)
    /\ [][handler'[1] = "onclose"
            => /\ connectionAttempts' = connectionAttempts + 1
               /\ IF connectionAttempts' < maxReconnectAttempts
                  THEN /\ ReconnectScheduled'
                       /\ reconnectTimers' = 1
                       /\ ~isOfflineMode'
                       /\ PollLoops' = 0
                  ELSE /\ connectionAttempts' = maxReconnectAttempts
                       /\ isOfflineMode'
                       /\ ~ReconnectScheduled'
                       /\ reconnectTimers' = 0
                       /\ issued' = GetTasks]_vars
    /\ [][handler'[1] = "connect"
            => /\ reconnectTimers = 1
               /\ SocketCreated'
               /\ wsReadyState' = "CONNECTING"
               /\ UNCHANGED connectionAttempts]_vars

C16_Witness ==
    /\ isOfflineMode
    /\ handler = <<"onclose", "alone">>
    /\ connectionAttempts = maxReconnectAttempts
    /\ failedAttempts = maxReconnectAttempts
    /\ reconnectTimers = 0
    /\ issued = GetTasks

\* C17: the close event of a socket that connect() has replaced changes no
\* retry counter, sets no reconnect timer and does not enter offline mode.
C17_ReplacedSocketIsInert ==
    [][handler' = <<"onclose", "replaced socket">>
          => UNCHANGED <<connectionAttempts, reconnectTimers, isOfflineMode,
                         isConnecting>>]_vars

\* C18: the step that enters offline mode issues the first read at once;
\* every later read is issued by a poll timer, and a poll timer is set only
\* by a poll that has completed, with a delay of pollInterval.
C18_FirstReadThenInterval ==
    [][/\ (~isOfflineMode /\ isOfflineMode')
            => /\ issued' = GetTasks
               /\ pollInFlight' = pollInFlight + 1
       /\ (isOfflineMode /\ issued' = GetTasks)
            => /\ handler' = <<"poll", "fetch">>
               /\ pollTimers' = pollTimers - 1
       /\ pollTimers' > pollTimers
            => /\ handler'[1] = "poll" /\ handler'[2] \in PollOutcomes
               /\ scheduled' = <<Timer("poll", pollInterval, 0)>>]_vars

\* The supervisor state after a step is next.
SupervisorBecomes(next) ==
    <<connectionAttempts', isOfflineMode', fullPageReplacement', isConnecting',
      reconnectTimers', pollInFlight', pollTimers'>> = next

\* The supervisor states one event can lead to from the current state.
SupervisorSuccessors ==
    (connectionAttempts..(connectionAttempts + 2)) \X BOOLEAN \X BOOLEAN \X BOOLEAN
      \X (0..MaxTimers) \X (pollInFlight..(pollInFlight + 1)) \X {pollTimers}

\* C19: from one state, the error event and the close event of window.ws
\* lead to the same retry counter, offline flag, full-replacement flag and
\* pending timers (reconnect timers, started polls).
C19_ErrorHandledAsClose ==
    (BetweenTasks /\ wsReadyState \in {"CONNECTING", "OPEN", "CLOSING"})
      => \A next \in SupervisorSuccessors :
            (ENABLED (onerror(FALSE) /\ SupervisorBecomes(next)))
              <=> (ENABLED (onclose /\ SupervisorBecomes(next)))

C19_Witness ==
    /\ handler = <<"onerror", "alone">>
    /\ isOfflineMode
    /\ connectionAttempts = maxReconnectAttempts
    /\ failedAttempts = maxReconnectAttempts
    /\ pollInFlight = 1

\* C20: a step that sets a reconnect timer has incremented the retry counter
\* first; with k the counter after the increment, 1 <= k < 10, the delay
\* without its jitter is min(1000 * 2^k, 30000) and the jitter is in
\* [0, 1000); that delay does not decrease with k and never exceeds 30000.
C20_DelayOfIncrementedCounter ==
    /\ [][ReconnectScheduled'
            => /\ connectionAttempts' = connectionAttempts + 1
               /\ 1 <= connectionAttempts'
               /\ connectionAttempts' < maxReconnectAttempts
               /\ scheduled'[1].delay = Min(1000 * 2^connectionAttempts', 30000)
               /\ scheduled'[1].jitter >= 0
               /\ scheduled'[1].jitter < 1000]_vars
    /\ [](ReconnectScheduled
            => \A k \in 1..connectionAttempts :
                  /\ backoffDelay(k) <= scheduled[1].delay
                  /\ backoffDelay(k) <= 30000)

C20_Witness ==
    /\ ReconnectScheduled
    /\ handler = <<"onclose", "after error">>
    /\ connectionAttempts = 4
    /\ scheduled[1].delay = 16000

\* C21: within one column of a patch the count and the list are compared and
\* assigned each on its own: the count is assigned exactly when both counts
\* exist and differ, whatever the lists are, the list exactly when both lists
\* exist and differ, whatever the counts are, and a field that is equal is
\* not assigned and keeps its value.
C21_CountAndListGatedApart ==
    /\ [](body.taskGrid =>
           \A newHtml \in Fragments :
               \A index \in 1..Min(Len(body.children), Len(newHtml.children)) :
                   LET existingColumn == body.children[index]
                       newColumn == newHtml.children[index]
                       assigned == updateTaskGridWrites(body, newHtml)
                       after == updateTaskGrid(body, newHtml).children[index]
                   IN  /\ <<index, "count">> \in assigned
                            <=> /\ newColumn.count # Absent
                                /\ existingColumn.count # Absent
                                /\ newColumn.count # existingColumn.count
                       /\ <<index, "list">> \in assigned
                            <=> /\ newColumn.list # Absent
                                /\ existingColumn.list # Absent
                                /\ newColumn.list # existingColumn.list
                       /\ <<index, "count">> \in assigned => after.count = newColumn.count
                       /\ <<index, "list">> \in assigned => after.list = newColumn.list
                       /\ <<index, "count">> \notin assigned
                            => after.count = existingColumn.count
                       /\ <<index, "list">> \notin assigned
                            => after.list = existingColumn.list)
    /\ [][handler' = <<"onmessage", "task_grid_update">>
            => \A w \in writes' : FieldOf(body', w) # FieldOf(body, w)]_vars

\* A task_grid_update has assigned the count of the first column and not its
\* list, and the list of the second column and not its count.
C21_Witness ==
    /\ handler = <<"onmessage", "task_grid_update">>
    /\ writes = {<<1, "count">>, <<2, "list">>}
    /\ body.children[1] = Column("2", "<div>task b</div>")
    /\ body.children[2] = Column("1", "<div>task a</div>")

\* The last handler replaced the whole page.
FullReplica == handler[1] = "onmessage" /\ <<0, "body">> \in writes

\* C22: no task_grid_update and no poll result adds, removes or reorders
\* columns: every step but a full page load leaves the grid with the columns
\* it had, and the index-th column after a patch is made of the index-th
\* column before it and the index-th entry of the patch (of the tasks of the
\* index-th status, for a poll result), whatever the other entries are.
C22_RegionsKept ==
    /\ [][~FullReplica' => /\ body'.taskGrid = body.taskGrid
                           /\ Len(body'.children) = Len(body.children)
                           /\ \A w \in writes' : w[1] \in 1..Len(body.children)]_vars
    /\ [](body.taskGrid =>
           \A newHtml \in Fragments :
               LET after == updateTaskGrid(body, newHtml)
               IN  /\ Len(after.children) = Len(body.children)
                   /\ \A index \in 1..Len(body.children) :
                         after.children[index] =
                            IF index <= Len(newHtml.children)
                            THEN updateTaskGrid(
                                    Html(body.text, TRUE, <<body.children[index]>>),
                                    Html(newHtml.text, FALSE, <<newHtml.children[index]>>)
                                 ).children[1]
                            ELSE body.children[index])
    /\ [](body.taskGrid =>
           \A tasks \in TaskLists :
               LET after == updateTaskGridFromRestData(body, tasks)
               IN  /\ Len(after.children) = Len(body.children)
                   /\ \A index \in 1..Len(body.children) :
                         /\ after.children[index].count
                               \in {Absent, ToString(CountOf(tasks, StatusName(index)))}
                         /\ after.children[index].count = Absent
                               <=> body.children[index].count = Absent
                         /\ after.children[index].list = Absent
                               <=> body.children[index].list = Absent)

\* A full page of two columns, and later a poll result rendered into it.
C22_Witness ==
    /\ handler = <<"poll", "ok">>
    /\ body.taskGrid
    /\ body.text = "page"
    /\ Len(body.children) = 2
    /\ body.children[1].count = "1"
    /\ body.children[2].count = "1"

RECURSIVE CardsFrom(_, _, _)
\* The cards of the tasks of a status among tasks[i], tasks[i+1], ..., in the
\* order of the list.
CardsFrom(tasks, status, i) ==
    IF i > Len(tasks)
    THEN ""
    ELSE (IF tasks[i].status = status THEN RestCard(status, tasks[i]) ELSE "")
           \o CardsFrom(tasks, status, i + 1)

\* The grid has the three columns of the served page, each with its count
\* and its list.
ThreeRegions ==
    /\ body.taskGrid
    /\ Len(body.children) = Len(statusNames)
    /\ \A index \in 1..Len(statusNames) :
          body.children[index].count # Absent /\ body.children[index].list # Absent

\* C23: a poll result is rendered by status into the columns in the order
\* InProgress, Completed, Error: the index-th column gets the cards of
\* exactly the tasks of the index-th status, in the order of the result, and
\* their number as its count; a status without tasks gets the empty state
\* and the count 0; every successful read assigns every column, so all three
\* of the grid of three columns.
C23_BucketedByStatus ==
    /\ statusNames = <<"InProgress", "Completed", "Error">>
    /\ [](body.taskGrid =>
           \A tasks \in TaskLists :
               LET after == updateTaskGridFromRestData(body, tasks)
                   assigned == updateTaskGridFromRestDataWrites(body)
               IN  \A index \in 1..Min(Len(body.children), Len(statusNames)) :
                       LET status == statusNames[index]
                           n == Cardinality({i \in 1..Len(tasks) : tasks[i].status = status})
                       IN  /\ body.children[index].count # Absent
                                => /\ after.children[index].count = ToString(n)
                                   /\ <<index, "count">> \in assigned
                           /\ body.children[index].list # Absent
                                => /\ after.children[index].list =
                                         IF n = 0 THEN EmptyState
                                         ELSE CardsFrom(tasks, status, 1)
                                   /\ <<index, "list">> \in assigned)
    /\ [][(handler' = <<"poll", "ok">> /\ ThreeRegions)
            => /\ writes' = (1..Len(statusNames)) \X {"count", "list"}
               /\ ThreeRegions'
               /\ \E tasks \in TaskLists :
                     \A index \in 1..Len(statusNames) :
                        /\ body'.children[index].count
                              = ToString(CountOf(tasks, statusNames[index]))
                        /\ body'.children[index].list
                              = IF CountOf(tasks, statusNames[index]) = 0
                                THEN EmptyState
                                ELSE CardsFrom(tasks, statusNames[index], 1)]_vars

\* A poll result of two tasks with errors, the later id first, and nothing
\* else, rendered into the grid of three columns.
C23_Witness ==
    /\ handler = <<"poll", "ok">>
    /\ ThreeRegions
    /\ writes = (1..3) \X {"count", "list"}
    /\ body.children[1] = Column("0", EmptyState)
    /\ body.children[2] = Column("0", EmptyState)
    /\ body.children[3] = Column("2", RestCard("Error", Task(2, "Error"))
                                        \o RestCard("Error", Task(1, "Error")))

\* What a message handler has to leave alone: the socket, the retry counter,
\* the flags and the pending timers and polls.
MessageFrame ==
    /\ UNCHANGED <<wsReadyState, wsCloseDue, staleClosePending, isConnecting,
                   connectionAttempts, isOfflineMode, fullPageReplacement,
                   reconnectTimers, pollInFlight, pollTimers>>
    /\ scheduled' = <<>>
    /\ issued' = <<>>

\* C24: a full_page_load makes document.body what the message carries,
\* whatever the body was, and leaves the supervisor as it was: the socket is
\* the same and open, and the retry counter, the offline flag, the pending
\* reconnect timers and the poll loop are unchanged, no timer is set and
\* nothing is sent.
C24_FullPageOnlyReplacesBody ==
    /\ []((BetweenTasks /\ wsReadyState = "OPEN") =>
            \A html \in FewPages :
                /\ ENABLED onmessage(FullPageLoad(html))
                /\ ~ENABLED (onmessage(FullPageLoad(html))
                               /\ ~(body' = html /\ MessageFrame)))
    /\ [][(handler'[1] = "onmessage" /\ <<0, "body">> \in writes')
            => /\ MessageFrame
               /\ wsReadyState = "OPEN"
               /\ body' \in FewPages]_vars

\* A full page arrives over the open socket while a reconnect timer is
\* pending and the offline polling runs.
C24_Witness ==
    /\ handler = <<"onmessage", "full_page_load">>
    /\ body.taskGrid
    /\ Len(body.children) = 2
    /\ wsReadyState = "OPEN"
    /\ reconnectTimers = 1
    /\ isOfflineMode
    /\ PollLoops > 0

\* C25: at most one socket created by connect() is CONNECTING or OPEN.  A
\* socket is created only while window.ws is neither (the sockets replaced
\* before were CLOSING or CLOSED), and a call of connect() while it is
\* CONNECTING or OPEN creates nothing and changes nothing but the timer that
\* made the call.
C25_OneLiveSocket ==
    /\ [][SocketCreated' => /\ ~PrimaryLive
                            /\ wsReadyState' = "CONNECTING"]_vars
    /\ [][(handler'[1] = "connect" /\ PrimaryLive)
            => /\ handler' = <<"connect", "skipped">>
               /\ issued' = <<>>
               /\ reconnectTimers' = reconnectTimers - 1
               /\ UNCHANGED <<wsReadyState, wsCloseDue, staleClosePending,
                              isConnecting, connectionAttempts, isOfflineMode,
                              fullPageReplacement, pollInFlight, pollTimers>>]_vars
    /\ [](isConnecting => wsReadyState = "CONNECTING")

\* The second timer of an error and its close fires after the first one's
\* socket has opened.
C25_Witness ==
    /\ handler = <<"connect", "skipped">>
    /\ wsReadyState = "OPEN"
    /\ connectionAttempts = 0
    /\ failedAttempts = 0

\* C26: at most one reconnect timer is pending, and the close event that
\* follows an error event of the same socket sets no second one.
C26_OneReconnectTimer ==
    /\ [](reconnectTimers <= 1)
    /\ [][handler' = <<"onclose", "after error">>
            => reconnectTimers' = reconnectTimers]_vars

\* C27: the polling loop is started once: at most one poll timer is pending
\* or one poll request in flight, and no close or error event that arrives
\* in offline mode runs switchToOfflineMode (and so issues a read) again.
C27_PollingStartedOnce ==
    /\ [](PollLoops <= 1)
    /\ [][isOfflineMode
            => ~(handler'[1] \in {"onclose", "onerror"} /\ issued' = GetTasks)]_vars

\* C28: the retry counter stays between 0 and maxReconnectAttempts.
C28_CounterWithinBudget ==
    0 <= connectionAttempts /\ connectionAttempts <= maxReconnectAttempts

\* C29 as stated: in every state a socket is CONNECTING or OPEN, or a
\* reconnect timer is pending, or the polling loop runs; and if no attempt
\* ever opens, offline mode is entered.
C29_NeverWithoutUpdates ==
    /\ [](PrimaryLive \/ reconnectTimers > 0 \/ PollLoops > 0)
    /\ ([](wsReadyState # "OPEN") => <>isOfflineMode)

\* C29 amended: as long as window.fullPageReplacement is not set, window.ws
\* is CONNECTING, OPEN or CLOSING (its close event is still to come), or a
\* reconnect timer is pending, or the polling loop runs; and if no attempt
\* ever opens and the flag is never set, offline mode is entered.
C29_UpdatesUnlessReplacement ==
    /\ [](\/ fullPageReplacement
          \/ wsReadyState \in {"CONNECTING", "OPEN", "CLOSING"}
          \/ reconnectTimers > 0
          \/ PollLoops > 0)
    /\ (([](wsReadyState # "OPEN") /\ []~fullPageReplacement) => <>isOfflineMode)

\* Ten attempts have failed since the start, none opened, and the client
\* is left with the polling loop alone.
C29_Witness ==
    /\ isOfflineMode
    /\ ~fullPageReplacement
    /\ failedAttempts >= 5
    /\ connectionAttempts >= maxReconnectAttempts
    /\ wsReadyState = "CLOSED"
    /\ reconnectTimers = 0
    /\ PollLoops > 0

(***************************************************************************)
(* The simpler connection manager (part_000).  Its connect() has no guard  *)
(* and closes nothing: ws = new WebSocket(...) only drops the reference to *)
(* the socket before, which stays as it is and keeps its handlers.  Here   *)
(* wsReadyState is the readyState of ws, staleClosePending the sockets     *)
(* created before it that are still CONNECTING or OPEN, and reconnectTimers*)
(* the pending setTimeout(connect, ...).  It has no retry counter, no      *)
(* offline mode and no polling: those variables stay as they start.        *)
(***************************************************************************)
part000_unused == <<isConnecting, connectionAttempts, isOfflineMode,
                    fullPageReplacement, pollInFlight, pollTimers, restInFlight,
                    restCancelButtons, shown, failedAttempts>>

\* initWebSocketConnection() has called connect().
part000_Init ==
    /\ wsReadyState = "CONNECTING"
    /\ wsCloseDue = FALSE
    /\ staleClosePending = 0
    /\ isConnecting = FALSE
    /\ connectionAttempts = 0
    /\ isOfflineMode = FALSE
    /\ fullPageReplacement = FALSE
    /\ reconnectTimers = 0
    /\ pollInFlight = 0
    /\ pollTimers = 0
    /\ restInFlight = NoWrites
    /\ restCancelButtons = FALSE
    /\ handler = <<"connect", "created">>
    /\ issued = <<"ws:connect">>
    /\ shown = <<>>
    /\ failedAttempts = 0
    /\ body = InitialPage
    /\ writes = {}
    /\ scheduled = <<>>

\* The sockets created by connect() that are CONNECTING or OPEN.
part000_LiveSockets == (IF PrimaryLive THEN 1 ELSE 0) + staleClosePending

\* setTimeout(connect, delay)
part000_setTimeout(delay) ==
    /\ reconnectTimers < MaxTimers
    /\ reconnectTimers' = reconnectTimers + 1
    /\ scheduled' = <<Timer("connect", delay, 0)>>

\* connect(), called by a timer: a new socket, whatever ws was.
part000_connect ==
    /\ BetweenTasks
    /\ reconnectTimers > 0
    /\ reconnectTimers' = reconnectTimers - 1
    /\ IF PrimaryLive
       THEN /\ staleClosePending < MaxStale
            /\ staleClosePending' = staleClosePending + 1
       ELSE UNCHANGED staleClosePending
    /\ wsReadyState' = "CONNECTING"
    /\ handler' = <<"connect", "created">>
    /\ issued' = <<"ws:connect">>
    /\ scheduled' = <<>>
    /\ gridUntouched
    /\ UNCHANGED <<wsCloseDue, part000_unused>>

\* The connection of ws is established; the manager has no onopen.
part000_opened ==
    /\ BetweenTasks
    /\ wsReadyState = "CONNECTING"
    /\ wsReadyState' = "OPEN"
    /\ handler' = <<"network", "opened">>
    /\ issued' = <<>>
    /\ scheduled' = <<>>
    /\ gridUntouched
    /\ UNCHANGED <<wsCloseDue, staleClosePending, reconnectTimers, part000_unused>>

\* onmessage of ws.  JSON.parse is not in a try block: text that is no JSON,
\* or the JSON null, ends the handler with an exception.
part000_onmessage(data) ==
    /\ BetweenTasks
    /\ wsReadyState = "OPEN"
    /\ issued' = <<>>
    /\ IF data.json # "object"
       THEN /\ handler' = <<"onmessage", "uncaught exception">>
            /\ scheduled' = <<>>
            /\ gridUntouched
            /\ UNCHANGED reconnectTimers
       ELSE IF data.type = "full_page_load"
       THEN /\ handler' = <<"onmessage", "full_page_load">>
            /\ body' = data.html
            /\ writes' = {<<0, "body">>}
            /\ part000_setTimeout(100)
       ELSE IF data.type = "task_grid_update"
       THEN /\ handler' = <<"onmessage", "task_grid_update">>
            /\ body' = updateTaskGrid(body, data.html)
            /\ writes' = updateTaskGridWrites(body, data.html)
            /\ scheduled' = <<>>
            /\ UNCHANGED reconnectTimers
       ELSE /\ handler' = <<"onmessage", "unknown type">>
            /\ scheduled' = <<>>
            /\ gridUntouched
            /\ UNCHANGED reconnectTimers
    /\ UNCHANGED <<wsReadyState, wsCloseDue, staleClosePending, part000_unused>>

\* The close event of ws: alone, or right after its error event.
part000_onclose ==
    /\ PrimaryLive \/ wsCloseDue
    /\ wsReadyState' = "CLOSED"
    /\ wsCloseDue' = FALSE
    /\ handler' = <<"onclose", IF wsCloseDue THEN "after error" ELSE "alone">>
    /\ issued' = <<>>
    /\ part000_setTimeout(1000)
    /\ gridUntouched
    /\ UNCHANGED <<staleClosePending, part000_unused>>

\* The error event of ws; closeFollows: its close event comes next.
part000_onerror(closeFollows) ==
    /\ BetweenTasks
    /\ PrimaryLive
    /\ wsReadyState' = "CLOSED"
    /\ wsCloseDue' = closeFollows
    /\ handler' = <<"onerror", IF closeFollows THEN "close follows" ELSE "alone">>
    /\ issued' = <<>>
    /\ part000_setTimeout(1000)
    /\ closeFollows => reconnectTimers' < MaxTimers
    /\ gridUntouched
    /\ UNCHANGED <<staleClosePending, part000_unused>>

\* The close event of a socket created before ws.
part000_oncloseReplaced ==
    /\ BetweenTasks
    /\ staleClosePending > 0
    /\ staleClosePending' = staleClosePending - 1
    /\ handler' = <<"onclose", "replaced socket">>
    /\ issued' = <<>>
    /\ part000_setTimeout(1000)
    /\ gridUntouched
    /\ UNCHANGED <<wsReadyState, wsCloseDue, part000_unused>>

\* The messages the simpler manager is run with.
part000_Messages ==
    {Data("SyntaxError", "", undefinedHtml), Data("object", "pong", undefinedHtml)}
    \cup {FullPageLoad(html) : html \in FewPages}
    \cup {Data("object", "task_grid_update", Html("fragment", FALSE, c)) :
             c \in SeqsUpTo({Column("1", "<div>task b</div>")}, 2)}

part000_Next ==
    \/ part000_connect
    \/ part000_opened
    \/ \E data \in part000_Messages : part000_onmessage(data)
    \/ part000_onclose
    \/ \E c \in BOOLEAN : part000_onerror(c)
    \/ part000_oncloseReplaced

part000_Spec == part000_Init /\ [][part000_Next]_vars

\* C30: in the simpler manager at most one socket created by connect() is
\* CONNECTING or OPEN and at most one reconnect timer is pending, also after
\* a full_page_load and after an attempt that ends with error and close.
C30_SimplerManagerOneSocket ==
    /\ part000_LiveSockets <= 1
    /\ reconnectTimers <= 1
====
